---- MODULE Spec2Model ----
(***************************************************************************)
(* polar-fs-utils (src/main.ts, src/mod.ts): ten operations that forward   *)
(* `projectRoot + path` to the Deno filesystem API, to std/fs (ensureDir,  *)
(* copy) and to an external `zip` process.                                 *)
(*                                                                         *)
(* Strings are sequences of one-character strings, so that concatenation,  *)
(* the trailing-slash helper and the operating system's path lookup are    *)
(* computed, not assumed.  The filesystem is a function from nodes (the    *)
(* sequence of components of an absolute path) to entries.                 *)
(***************************************************************************)
EXTENDS Naturals, Sequences, FiniteSets, TLC

VARIABLES fs, prev, last, chain, capacity

vars == <<fs, prev, last, chain, capacity>>

(***************************************************************************)
(* Bounds and input sets                                                   *)
(***************************************************************************)
\* the largest number of entries the modelled disk holds
MaxEntries == 4

\* the same for the disk the copyDir runs start from
MaxCopyEntries == 8

\* const TEST_ROOT = './test_tmp' passed as projectRoot; here the absolute /r
ProjectRoot == <<"/", "r">>

\* the relative paths the callers pass (path, source, target)
RelPaths ==
    { <<>>,
      <<"/", "a">>, <<"/", "b">>,
      <<"/", "a", "/", "a">>, <<"/", "a", "/", "b">> }

\* the targets and sources zipFolder is called with, and the archive's name
ZipTargets ==
    { <<>>, <<"/", "b">>, <<"/", "b", "/">>, <<"/", "b", "/", "/">> }

ZipSources == { <<>>, <<"/", "a">> }

ZipNames == { <<"a">> }

\* how a run of the zip process may end: not spawned at all (no zip binary),
\* or exited with a code, having written bytes to stdout and stderr
ZipRuns ==
    { [spawned |-> FALSE, code |-> 0, stdout |-> <<>>, stderr |-> <<>>],
      [spawned |-> TRUE, code |-> 0, stdout |-> <<111>>, stderr |-> <<>>],
      [spawned |-> TRUE, code |-> 12, stdout |-> <<111>>, stderr |-> <<101>>],
      [spawned |-> TRUE, code |-> 12, stdout |-> <<>>, stderr |-> <<>>] }

\* text a caller writes; the empty text is a legal argument value
\* "uD800" stands for the lone surrogate U+D800, one UTF-16 code unit
Texts == { <<>>, <<"x">>, <<"uD800">> }

\* content?: string -- omitted, or one of Texts
ContentArgs ==
    { [defined |-> FALSE, text |-> <<>>] }
        \cup { [defined |-> TRUE, text |-> t] : t \in Texts }

(***************************************************************************)
(* Paths                                                                   *)
(***************************************************************************)
RECURSIVE SplitFrom(_, _, _)
\* the components of s from index i on, cur being the component under way:
\* separators delimit, empty components ("//", a trailing "/") vanish
SplitFrom(s, i, cur) ==
    IF i > Len(s)
    THEN IF cur = <<>> THEN <<>> ELSE <<cur>>
    ELSE IF s[i] = "/"
         THEN (IF cur = <<>> THEN <<>> ELSE <<cur>>) \o SplitFrom(s, i + 1, <<>>)
         ELSE SplitFrom(s, i + 1, Append(cur, s[i]))

\* the node an absolute path string names
Components(s) == SplitFrom(s, 1, <<>>)

\* input.projectRoot + input.path
FullPath(root, path) == root \o path

IsPrefix(a, b) == Len(a) <= Len(b) /\ SubSeq(b, 1, Len(a)) = a

Parent(n) == SubSeq(n, 1, Len(n) - 1)

(***************************************************************************)
(* The filesystem                                                          *)
(***************************************************************************)
DirEntry == [type |-> "dir", content |-> <<>>]

\* a regular file and the bytes it holds
FileEntry(bytes) == [type |-> "file", content |-> bytes]

\* "/" itself always exists and is never addressed (every path starts /r)
Exists(f, n) == n = <<>> \/ n \in DOMAIN f

IsDir(f, n) == n = <<>> \/ (n \in DOMAIN f /\ f[n].type = "dir")

IsFile(f, n) == n \in DOMAIN f /\ f[n].type = "file"

\* the operating system's lookup of n: the first component that is missing
\* gives ENOENT, a regular file used as a directory gives ENOTDIR
Lookup(f, n) ==
    IF \E k \in 1..(Len(n) - 1) : IsFile(f, SubSeq(n, 1, k))
    THEN "NotADirectory"
    ELSE IF Exists(f, n) THEN "ok" ELSE "NotFound"

ChildNodes(f, n) == { m \in DOMAIN f : Len(m) = Len(n) + 1 /\ IsPrefix(n, m) }

\* every entry lives in a directory
WellFormed(f) == \A n \in DOMAIN f : Len(n) >= 1 /\ IsDir(f, Parent(n))

(***************************************************************************)
(* Results: what a call did to the disk and how it ended.  A message is a  *)
(* sequence of text pieces, so that a template literal is a concatenation. *)
(***************************************************************************)
Done(f) == [fs |-> f, ok |-> TRUE, kind |-> "none", msg |-> <<>>]

Fail(f, kind, msg) == [fs |-> f, ok |-> FALSE, kind |-> kind, msg |-> msg]

\* the message the runtime gives an operating-system failure
OsMessage(kind) ==
    CASE kind = "NotFound" -> <<"No such file or directory (os error 2)">>
      [] kind = "NotADirectory" -> <<"Not a directory (os error 20)">>
      [] kind = "IsADirectory" -> <<"Is a directory (os error 21)">>
      [] kind = "AlreadyExists" -> <<"File exists (os error 17)">>
      [] OTHER -> <<"Directory not empty (os error 39)">>

OsFail(f, kind) == Fail(f, kind, OsMessage(kind))

\* the classes that are instances of Error: every failure the runtime raises
ErrorClasses ==
    { "Error", "NotFound", "NotADirectory", "IsADirectory", "AlreadyExists" }

(***************************************************************************)
(* Text and bytes: files hold bytes, strings are UTF-16                    *)
(***************************************************************************)
\* the UTF-8 bytes of one code unit; a lone surrogate has no UTF-8 form and is
\* encoded as U+FFFD (EF BF BD), as TextEncoder does
CodeOf(c) ==
    CASE c = "/" -> <<47>> [] c = "." -> <<46>> [] c = "a" -> <<97>>
      [] c = "b" -> <<98>> [] c = "e" -> <<101>> [] c = "o" -> <<111>>
      [] c = "x" -> <<120>> [] c = "y" -> <<121>> [] c = "P" -> <<80>>
      [] c = "K" -> <<75>>
      [] OTHER -> <<239, 191, 189>>

CharOf(b) ==
    CASE b = 47 -> "/" [] b = 46 -> "." [] b = 97 -> "a" [] b = 98 -> "b"
      [] b = 101 -> "e" [] b = 111 -> "o" [] b = 120 -> "x" [] b = 121 -> "y"
      [] b = 80 -> "P" [] OTHER -> "K"

RECURSIVE Encode(_)
\* new TextEncoder().encode(text), what Deno.writeTextFile stores
Encode(text) ==
    IF text = <<>> THEN <<>> ELSE CodeOf(Head(text)) \o Encode(Tail(text))

RECURSIVE Decode(_)
\* new TextDecoder().decode(bytes), what Deno.readTextFile returns
Decode(bytes) ==
    IF bytes = <<>> THEN <<>>
    ELSE IF Len(bytes) >= 3 /\ SubSeq(bytes, 1, 3) = <<239, 191, 189>>
    THEN <<"uFFFD">> \o Decode(SubSeq(bytes, 4, Len(bytes)))
    ELSE <<CharOf(Head(bytes))>> \o Decode(Tail(bytes))

(***************************************************************************)
(* The runtime's primitives, as the operations call them                   *)
(***************************************************************************)
\* f without n and everything below it
Without(f, n) ==
    [m \in { k \in DOMAIN f : ~IsPrefix(n, k) } |-> f[m]]

\* f with entry e at n
With(f, n, e) ==
    [m \in DOMAIN f \cup {n} |-> IF m = n THEN e ELSE f[m]]

\* mkdir -p: n and every missing ancestor of n become directories
Mkdirp(f, n) ==
    [m \in DOMAIN f \cup { SubSeq(n, 1, k) : k \in 1..Len(n) } |->
        IF m \in DOMAIN f THEN f[m] ELSE DirEntry]

\* Deno.remove(path, { recursive })
DenoRemove(f, n, recursive) ==
    LET l == Lookup(f, n) IN
    IF l # "ok" THEN OsFail(f, l)
    ELSE IF recursive THEN Done(Without(f, n))
    ELSE IF ChildNodes(f, n) # {} THEN Fail(f, "Error", OsMessage("NotEmpty"))
    ELSE Done(Without(f, n))

\* std/fs ensureDir: stat, accept a directory, refuse another kind of entry,
\* rethrow every stat failure but NotFound, and on NotFound mkdir -p
EnsureDir(f, n) ==
    LET l == Lookup(f, n) IN
    IF l = "ok"
    THEN IF IsDir(f, n) THEN Done(f)
         ELSE Fail(f, "Error",
                   <<"Failed to ensure directory exists: expected 'dir', got 'file'">>)
    ELSE IF l # "NotFound" THEN OsFail(f, l)
    ELSE Done(Mkdirp(f, n))

\* Deno.readDir: the entries of the directory at n
DenoReadDir(f, n) ==
    LET l == Lookup(f, n) IN
    IF l # "ok" THEN OsFail(f, l)
    ELSE IF ~IsDir(f, n) THEN OsFail(f, "NotADirectory")
    ELSE Done(f)

\* Deno.readFile / Deno.readTextFile: whether the file at n can be read
DenoRead(f, n) ==
    LET l == Lookup(f, n) IN
    IF l # "ok" THEN OsFail(f, l)
    ELSE IF IsDir(f, n) THEN OsFail(f, "IsADirectory")
    ELSE Done(f)

\* open(n, create + truncate) and write: the file at n, made if missing in an
\* existing directory, holds exactly bytes
WriteBytes(f, n, bytes) ==
    LET l == Lookup(f, n) IN
    IF l = "NotADirectory" THEN OsFail(f, l)
    ELSE IF l = "ok"
         THEN IF IsDir(f, n) THEN OsFail(f, "IsADirectory")
              ELSE Done(With(f, n, FileEntry(bytes)))
    ELSE IF ~IsDir(f, Parent(n)) THEN OsFail(f, "NotFound")
    ELSE Done(With(f, n, FileEntry(bytes)))

\* faulty variant: a write that appends to the file instead of truncating it
DenoWriteTextFile_Append(f, n, text) ==
    WriteBytes(f, n, (IF IsFile(f, n) THEN f[n].content ELSE <<>>) \o Encode(text))

\* Deno.writeTextFile(path, text)
DenoWriteTextFile(f, n, text) == WriteBytes(f, n, Encode(text))

\* what copying a file onto itself does: the target is opened for truncation
\* before the source is read (Linux), or unlinked before it is cloned (macOS)
SameFileOutcomes == { "truncated", "unlinked" }

\* Deno.copyFile(s, t); `same` is the platform's outcome when t is s
DenoCopyFile(f, s, t, same) ==
    LET l == Lookup(f, s) IN
    IF l # "ok" THEN OsFail(f, l)
    ELSE IF IsDir(f, s)
    THEN Fail(f, "Error", <<"the source path is not a regular file">>)
    ELSE IF s = t
    THEN IF same = "truncated" THEN Done(With(f, s, FileEntry(<<>>)))
         ELSE OsFail(Without(f, s), "NotFound")
    ELSE WriteBytes(f, t, f[s].content)

\* faulty variant: a copy of a directory that takes its immediate entries only
StdCopy_Shallow(f, s, t) ==
    IF s = t
    THEN Fail(f, "Error", <<"Source and destination cannot be the same">>)
    ELSE IF Lookup(f, s) # "ok" THEN OsFail(f, Lookup(f, s))
    ELSE IF IsDir(f, s) /\ IsPrefix(s, t)
    THEN Fail(f, "Error", <<"Cannot copy to a subdirectory of itself">>)
    ELSE IF Lookup(f, t) = "NotADirectory" THEN OsFail(f, "NotADirectory")
    ELSE IF Lookup(f, t) = "ok"
    THEN IF IsDir(f, s) /\ ~IsDir(f, t)
         THEN Fail(f, "Error", <<"Cannot overwrite non-directory with directory">>)
         ELSE OsFail(f, "AlreadyExists")
    ELSE IF IsDir(f, s)
    THEN LET g == Mkdirp(f, t)
             below == ChildNodes(f, s)
             image(m) == t \o SubSeq(m, Len(s) + 1, Len(m))
         IN  Done([k \in DOMAIN g \cup { image(m) : m \in below } |->
                     IF \E m \in below : image(m) = k
                     THEN f[CHOOSE m \in below : image(m) = k]
                     ELSE g[k]])
    ELSE WriteBytes(f, t, f[s].content)

\* std/fs copy with the default options (overwrite: false)
StdCopy(f, s, t) ==
    IF s = t
    THEN Fail(f, "Error", <<"Source and destination cannot be the same">>)
    ELSE IF Lookup(f, s) # "ok" THEN OsFail(f, Lookup(f, s))
    ELSE IF IsDir(f, s) /\ IsPrefix(s, t)
    THEN Fail(f, "Error", <<"Cannot copy to a subdirectory of itself">>)
    ELSE IF Lookup(f, t) = "NotADirectory" THEN OsFail(f, "NotADirectory")
    ELSE IF Lookup(f, t) = "ok"
    THEN IF IsDir(f, s) /\ ~IsDir(f, t)
         THEN Fail(f, "Error", <<"Cannot overwrite non-directory with directory">>)
         ELSE OsFail(f, "AlreadyExists")
    ELSE IF IsDir(f, s)
    THEN LET g == Mkdirp(f, t)
             below == { m \in DOMAIN f : IsPrefix(s, m) /\ m # s }
             image(m) == t \o SubSeq(m, Len(s) + 1, Len(m))
         IN  Done([k \in DOMAIN g \cup { image(m) : m \in below } |->
                     IF \E m \in below : image(m) = k
                     THEN f[CHOOSE m \in below : image(m) = k]
                     ELSE g[k]])
    ELSE WriteBytes(f, t, f[s].content)

(***************************************************************************)
(* The operations of main.ts.  Each returns the new disk, how it ended and  *)
(* what it returned.                                                       *)
(***************************************************************************)
Out(r) ==
    [fs |-> r.fs, ok |-> r.ok, kind |-> r.kind, msg |-> r.msg,
     names |-> <<>>, text |-> <<>>, bytes |-> <<>>,
     calls |-> <<>>, ensured |-> <<>>, archive |-> <<>>, logged |-> <<>>]

\* faulty variant: the separator is appended whatever x ends with
formatWithTrailingSlash_Always(x) == x \o <<"/">>

formatWithTrailingSlash(x) ==
    x \o (IF x = <<>> \/ x[Len(x)] # "/" THEN <<"/">> ELSE <<>>)

\* the orders in which a directory stream may yield the entries of n
StreamOrders(f, n) ==
    LET kids == ChildNodes(f, n) IN
    { o \in [1..Cardinality(kids) -> kids] :
        \A i, j \in 1..Cardinality(kids) : i # j => o[i] # o[j] }

\* entry.name of a directory entry
EntryName(m) == m[Len(m)]

RECURSIVE PushDirectories_All(_, _, _, _)
\* faulty variant: the loop without its entry.isDirectory test
PushDirectories_All(f, stream, i, directories) ==
    IF i > Len(stream) THEN directories
    ELSE PushDirectories_All(f, stream, i + 1,
                             Append(directories, EntryName(stream[i])))

RECURSIVE PushDirectories(_, _, _, _)
\* the loop of getDirectories over the stream from its i-th entry on
PushDirectories(f, stream, i, directories) ==
    IF i > Len(stream) THEN directories
    ELSE PushDirectories(f, stream, i + 1,
             IF f[stream[i]].type = "dir"
             THEN Append(directories, EntryName(stream[i]))
             ELSE directories)

getDirectories(f, root, path, stream) ==
    LET n == Components(FullPath(root, path))
        r == DenoReadDir(f, n)
    IN  IF r.ok
        THEN [Out(r) EXCEPT !.names = PushDirectories(f, stream, 1, <<>>)]
        ELSE Out(r)

\* catch (e) { if (e instanceof Error) throw new Error(e.message) ... }
WrapError(r) ==
    IF r.kind \in ErrorClasses
    THEN Fail(r.fs, "Error", r.msg)
    ELSE Fail(r.fs, "Error", <<"Unknown Error">>)

\* faulty variant: mkdir without looking first, so an existing directory fails
makeDir_Mkdir(f, root, path) ==
    LET n == Components(FullPath(root, path))
        r == IF Exists(f, n) /\ Lookup(f, n) = "ok"
             THEN OsFail(f, "AlreadyExists") ELSE EnsureDir(f, n)
    IN  IF r.ok THEN Out(r) ELSE Out(WrapError(r))

makeDir(f, root, path) ==
    LET r == EnsureDir(f, Components(FullPath(root, path)))
    IN  IF r.ok THEN Out(r) ELSE Out(WrapError(r))

\* faulty variant: no catch, every failure of Deno.remove is thrown
removeDir_Rethrows(f, root, path) ==
    Out(DenoRemove(f, Components(FullPath(root, path)), TRUE))

removeDir(f, root, path) ==
    LET thePath == FullPath(root, path)
        r == DenoRemove(f, Components(thePath), TRUE)
    IN  IF ~r.ok /\ r.kind = "NotFound" THEN Out(Done(r.fs)) ELSE Out(r)

copyDir(f, root, source, target) ==
    Out(StdCopy(f, Components(FullPath(root, source)),
                   Components(FullPath(root, target))))

getFile(f, root, path) ==
    LET filePath == Components(FullPath(root, path))
        r == DenoRead(f, filePath)
    IN  IF r.ok THEN [Out(r) EXCEPT !.bytes = f[filePath].content]
        ELSE Out(r)

\* faulty variant: content === undefined instead of !content
writeFile_UndefinedOnly(f, root, path, content) ==
    IF ~content.defined
    THEN Out(Fail(f, "Error", <<"Content is required for writing file">>))
    ELSE Out(DenoWriteTextFile(f, Components(FullPath(root, path)), content.text))

\* if (!input.content) throw ...: undefined and '' are both falsy
Truthy(content) == content.defined /\ content.text # <<>>

writeFile(f, root, path, content) ==
    LET filePath == Components(FullPath(root, path))
    IN  IF ~Truthy(content)
        THEN Out(Fail(f, "Error", <<"Content is required for writing file">>))
        ELSE Out(DenoWriteTextFile(f, filePath, content.text))

\* faulty variant: NotFound swallowed as removeDir does
removeFile_Swallows(f, root, path) ==
    LET r == DenoRemove(f, Components(FullPath(root, path)), FALSE)
    IN  IF ~r.ok /\ r.kind = "NotFound" THEN Out(Done(r.fs)) ELSE Out(r)

removeFile(f, root, path) ==
    Out(DenoRemove(f, Components(FullPath(root, path)), FALSE))

\* faulty variant: an existing target is refused instead of overwritten
copyFile_NoOverwrite(f, root, source, target, same) ==
    IF Exists(f, Components(FullPath(root, target)))
    THEN Out(OsFail(f, "AlreadyExists"))
    ELSE Out(DenoCopyFile(f, Components(FullPath(root, source)),
                             Components(FullPath(root, target)), same))

copyFile(f, root, source, target, same) ==
    Out(DenoCopyFile(f, Components(FullPath(root, source)),
                        Components(FullPath(root, target)), same))

getTextContent(f, root, path) ==
    LET filePath == Components(FullPath(root, path))
        r == DenoRead(f, filePath)
    IN  IF r.ok THEN [Out(r) EXCEPT !.text = Decode(f[filePath].content)]
        ELSE Out(r)

RECURSIVE Join(_)
\* the absolute path string of a node
Join(n) == IF n = <<>> THEN <<>> ELSE <<"/">> \o n[1] \o Join(Tail(n))

\* std/path resolve(a, b) for an absolute a: b alone when b is absolute,
\* the normalized a/b otherwise
Resolve(a, b) ==
    IF b # <<>> /\ b[1] = "/" THEN Join(Components(b))
    ELSE Join(Components(a \o <<"/">> \o b))

\* new Deno.Command('zip', { args: ['-r', archive, '.'], cwd }).output():
\* spawning fails when there is no zip binary or cwd is no directory;
\* a run that exits 0 has written the archive
ZipProcess(f, cwd, archive, run) ==
    IF ~run.spawned
    THEN Fail(f, "NotFound", <<"Failed to spawn 'zip'">>) @@ [success |-> FALSE]
    ELSE IF ~IsDir(f, cwd)
    THEN Fail(f, IF Exists(f, cwd) THEN "NotADirectory" ELSE "NotFound",
                 <<"Failed to spawn 'zip'">>) @@ [success |-> FALSE]
    ELSE IF run.code = 0 /\ ~IsDir(f, archive)
    THEN Done(With(f, archive, FileEntry(<<80, 75>>))) @@ [success |-> TRUE]
    ELSE Done(f) @@ [success |-> FALSE]

\* faulty variant: stdout is logged before the exit status is looked at
zipFolder_LogsFirst(f, root, source, target, name, run) ==
    LET src == FullPath(root, source)
        tgt == FullPath(root, formatWithTrailingSlash(target))
        e == EnsureDir(f, Components(tgt))
        zipFilePath == Resolve(tgt, name \o <<".", "z", "i", "p">>)
        z == ZipProcess(e.fs, Components(src), Components(zipFilePath), run)
    IN  IF ~e.ok
        THEN [Out(e) EXCEPT !.calls = <<"ensureDir">>, !.ensured = tgt]
        ELSE IF ~z.ok
        THEN [Out(z) EXCEPT !.calls = <<"ensureDir", "zip">>, !.ensured = tgt,
                            !.archive = zipFilePath]
        ELSE IF ~z.success
        THEN [Out(Fail(z.fs, "Error",
                       <<"Failed to create zip: ">> \o Decode(run.stderr)))
                EXCEPT !.calls = <<"ensureDir", "zip">>, !.ensured = tgt,
                       !.archive = zipFilePath,
                       !.logged = <<Decode(run.stdout)>>]
        ELSE [Out(Done(z.fs))
                EXCEPT !.calls = <<"ensureDir", "zip">>, !.ensured = tgt,
                       !.archive = zipFilePath,
                       !.logged = <<Decode(run.stdout)>>]

zipFolder(f, root, source, target, name, run) ==
    LET src == FullPath(root, source)
        tgt == FullPath(root, formatWithTrailingSlash(target))
        e == EnsureDir(f, Components(tgt))
        zipFilePath == Resolve(tgt, name \o <<".", "z", "i", "p">>)
        z == ZipProcess(e.fs, Components(src), Components(zipFilePath), run)
    IN  IF ~e.ok
        THEN [Out(e) EXCEPT !.calls = <<"ensureDir">>, !.ensured = tgt]
        ELSE IF ~z.ok
        THEN [Out(z) EXCEPT !.calls = <<"ensureDir", "zip">>, !.ensured = tgt,
                            !.archive = zipFilePath]
        ELSE IF ~z.success
        THEN [Out(Fail(z.fs, "Error",
                       <<"Failed to create zip: ">> \o Decode(run.stderr)))
                EXCEPT !.calls = <<"ensureDir", "zip">>, !.ensured = tgt,
                       !.archive = zipFilePath]
        ELSE [Out(Done(z.fs))
                EXCEPT !.calls = <<"ensureDir", "zip">>, !.ensured = tgt,
                       !.archive = zipFilePath,
                       !.logged = <<Decode(run.stdout)>>]

(***************************************************************************)
(* The state machine: one call at a time.  prev is the disk before the     *)
(* last call, last the call and its outcome, chain the operation of the    *)
(* call before it when that one succeeded on the same path and was the     *)
(* same operation or a writeFile.                                          *)
(***************************************************************************)
NoContent == [defined |-> FALSE, text |-> <<>>]

NoRun == [spawned |-> FALSE, code |-> 0, stdout |-> <<>>, stderr |-> <<>>]

NoChain == [op |-> "none", text |-> <<>>]

Call(op, path, target, name, content, run, o) ==
    [op |-> op, path |-> path, target |-> target, name |-> name,
     content |-> content, run |-> run, ok |-> o.ok, kind |-> o.kind, msg |-> o.msg,
     names |-> o.names, text |-> o.text, bytes |-> o.bytes, calls |-> o.calls,
     ensured |-> o.ensured, archive |-> o.archive, logged |-> o.logged]

Step(op, path, target, name, content, run, o) ==
    /\ Cardinality(DOMAIN o.fs) <= capacity
    /\ capacity' = capacity
    /\ prev' = fs
    /\ fs' = o.fs
    /\ last' = Call(op, path, target, name, content, run, o)
    /\ chain' = IF last.ok /\ last.path = path /\ last.op \in {op, "writeFile"}
                THEN [op |-> last.op, text |-> last.content.text]
                ELSE NoChain

\* the test setup: an empty project root
Init ==
    /\ fs = [n \in {Components(ProjectRoot)} |-> DirEntry]
    /\ prev = fs
    /\ last = Call("init", <<>>, <<>>, <<>>, NoContent, NoRun, Out(Done(fs)))
    /\ chain = NoChain
    /\ capacity = MaxEntries

GetDirectories ==
    \E path \in RelPaths :
      \E stream \in StreamOrders(fs, Components(FullPath(ProjectRoot, path))) :
        Step("getDirectories", path, <<>>, <<>>, NoContent, NoRun,
             getDirectories(fs, ProjectRoot, path, stream))

MakeDir ==
    \E path \in RelPaths :
        Step("makeDir", path, <<>>, <<>>, NoContent, NoRun,
             makeDir(fs, ProjectRoot, path))

RemoveDir ==
    \E path \in RelPaths :
        Step("removeDir", path, <<>>, <<>>, NoContent, NoRun,
             removeDir(fs, ProjectRoot, path))

CopyDir ==
    \E source \in RelPaths, target \in RelPaths :
        Step("copyDir", source, target, <<>>, NoContent, NoRun,
             copyDir(fs, ProjectRoot, source, target))

ZipFolder ==
    \E source \in ZipSources, target \in ZipTargets, name \in ZipNames,
       run \in ZipRuns :
        Step("zipFolder", source, target, name, NoContent, run,
             zipFolder(fs, ProjectRoot, source, target, name, run))

GetFile ==
    \E path \in RelPaths :
        Step("getFile", path, <<>>, <<>>, NoContent, NoRun,
             getFile(fs, ProjectRoot, path))

WriteFile ==
    \E path \in RelPaths, content \in ContentArgs :
        Step("writeFile", path, <<>>, <<>>, content, NoRun,
             writeFile(fs, ProjectRoot, path, content))

RemoveFile ==
    \E path \in RelPaths :
        Step("removeFile", path, <<>>, <<>>, NoContent, NoRun,
             removeFile(fs, ProjectRoot, path))

CopyFile ==
    \E source \in RelPaths, target \in RelPaths :
      \E same \in IF source = target THEN SameFileOutcomes ELSE {"truncated"} :
        Step("copyFile", source, target, <<>>, NoContent, NoRun,
             copyFile(fs, ProjectRoot, source, target, same))

GetTextContent ==
    \E path \in RelPaths :
        Step("getTextContent", path, <<>>, <<>>, NoContent, NoRun,
             getTextContent(fs, ProjectRoot, path))

Next ==
    \/ GetDirectories
    \/ MakeDir
    \/ RemoveDir
    \/ CopyDir
    \/ ZipFolder
    \/ GetFile
    \/ WriteFile
    \/ RemoveFile
    \/ CopyFile
    \/ GetTextContent

Spec == Init /\ [][Next]_vars

\* the nodes of the source trees copyDir runs start from
CopyPool ==
    { Components(FullPath(ProjectRoot, p)) :
        p \in { <<>>, <<"/", "a">>, <<"/", "b">>, <<"/", "a", "/", "a">>,
                <<"/", "a", "/", "b">>, <<"/", "a", "/", "b", "/", "a">> } }

\* the disks makeDir and writeFile build over CopyPool
CopyTrees ==
    UNION { { f \in [S -> { DirEntry, FileEntry(Encode(<<"x">>)),
                            FileEntry(Encode(<<"uD800">>)) }] :
                WellFormed(f) /\ IsDir(f, Components(ProjectRoot)) } :
            S \in SUBSET CopyPool }

\* a project holding a source tree, as the copyDir test sets one up
InitCopy ==
    /\ fs \in CopyTrees
    /\ prev = fs
    /\ last = Call("init", <<>>, <<>>, <<>>, NoContent, NoRun, Out(Done(fs)))
    /\ chain = NoChain
    /\ capacity = MaxCopyEntries

NextCopy ==
    \/ CopyDir
    \/ RemoveDir

SpecCopy == InitCopy /\ [][NextCopy]_vars

TypeOK == WellFormed(fs) /\ WellFormed(prev)

(***************************************************************************)
(* Properties.  Node(p) is where the relative path p of a call leads.      *)
(***************************************************************************)
Node(path) == Components(FullPath(ProjectRoot, path))

\* every entry of f other than those in `but` is in g, unchanged, and g has
\* no entry beyond those in f and `but`
SameExcept(f, g, but) ==
    /\ \A m \in DOMAIN f \ but : m \in DOMAIN g /\ g[m] = f[m]
    /\ \A m \in DOMAIN g \ but : m \in DOMAIN f

\* C1: a writeFile whose content is omitted or the empty string fails with
\* 'Content is required for writing file' and leaves the disk as it was,
\* whatever the path leads to.
C1_ContentRequired ==
    (last.op = "writeFile" /\ (~last.content.defined \/ last.content.text = <<>>))
        => /\ ~last.ok
           /\ last.kind = "Error"
           /\ last.msg = <<"Content is required for writing file">>
           /\ fs = prev

\* C1 witness: the empty string was passed for a file that exists
C1_Witness ==
    /\ last.op = "writeFile"
    /\ last.content.defined /\ last.content.text = <<>>
    /\ IsFile(prev, Node(last.path)) /\ prev[Node(last.path)].content # <<>>
    /\ ~last.ok

\* C2 as claimed: removeDir of any path that does not exist succeeds and
\* leaves the disk unchanged.
C2_AnyMissingPath ==
    (last.op = "removeDir" /\ ~Exists(prev, Node(last.path)))
        => (last.ok /\ fs = prev)

\* C2 as amended: removeDir of a path whose lookup ends in NotFound (it or an
\* ancestor is missing, no ancestor is a regular file) succeeds and leaves the
\* disk unchanged; so does a removeDir right after a successful removeDir of
\* the same path; below a regular file the runtime's NotADirectory is rethrown.
C2_NotFoundSuppressed ==
    last.op = "removeDir" =>
        /\ Lookup(prev, Node(last.path)) = "NotFound" => (last.ok /\ fs = prev)
        /\ chain.op = "removeDir" => (last.ok /\ fs = prev)
        /\ Lookup(prev, Node(last.path)) = "NotADirectory"
              => (~last.ok /\ last.kind = "NotADirectory" /\ fs = prev)

\* C2 witness: removeDir called again right after a successful removeDir
C2_Witness ==
    /\ last.op = "removeDir" /\ chain.op = "removeDir"
    /\ ~Exists(prev, Node(last.path))
    /\ last.ok

\* the operations that need their path (their source) to exist
NeedsPath ==
    { "removeFile", "getFile", "getTextContent", "getDirectories",
      "copyFile", "copyDir" }

\* C3 as claimed: each of removeFile, getFile, getTextContent, getDirectories,
\* copyFile and copyDir fails with NotFound on a path (source) that does not
\* exist and leaves the disk unchanged.
C3_AlwaysNotFound ==
    (last.op \in NeedsPath /\ ~Exists(prev, Node(last.path)))
        => (~last.ok /\ last.kind = "NotFound" /\ fs = prev)

\* C3 as amended: on a path (source) that does not exist each of these fails
\* and leaves the disk unchanged, and the failure is the runtime's own, not
\* rewrapped: NotFound when the lookup ends in NotFound, NotADirectory when an
\* ancestor is a regular file; except that copyDir with target equal to source
\* fails with a plain Error before the source is looked up.  removeDir alone
\* turns the NotFound into success.
C3_LookupFailureSurfaced ==
    /\ (last.op \in NeedsPath /\ ~Exists(prev, Node(last.path)))
          => /\ ~last.ok
             /\ fs = prev
             /\ IF last.op = "copyDir" /\ Node(last.target) = Node(last.path)
                THEN last.kind = "Error"
                ELSE /\ last.kind = Lookup(prev, Node(last.path))
                     /\ last.msg = OsMessage(last.kind)
    /\ (last.op = "removeDir" /\ Lookup(prev, Node(last.path)) = "NotFound")
          => last.ok

\* C3 witness: removeFile of a missing path failed with NotFound
C3_Witness ==
    /\ last.op = "removeFile"
    /\ Lookup(prev, Node(last.path)) = "NotFound"
    /\ ~last.ok /\ last.kind = "NotFound"

\* C4: a makeDir that succeeds leaves the directory and every ancestor of it
\* a directory, adding only the missing ones; a makeDir right after a
\* successful makeDir of the same path succeeds and changes nothing; a makeDir
\* that fails changes nothing and throws a plain Error with the message of the
\* failure ensureDir raised.
C4_MakeDirIdempotent ==
    last.op = "makeDir" =>
        LET n == Node(last.path) IN
        /\ last.ok =>
              /\ \A k \in 1..Len(n) : IsDir(fs, SubSeq(n, 1, k))
              /\ \A m \in DOMAIN prev : m \in DOMAIN fs /\ fs[m] = prev[m]
              /\ \A m \in DOMAIN fs \ DOMAIN prev : IsPrefix(m, n)
        /\ chain.op = "makeDir" => (last.ok /\ fs = prev)
        /\ ~last.ok =>
              /\ fs = prev
              /\ last.kind = "Error"
              /\ last.msg = EnsureDir(prev, n).msg
              /\ last.msg # <<>> /\ last.msg # <<"Unknown Error">>

\* C4 witness: makeDir of a nested path called again right after it succeeded
C4_Witness ==
    /\ last.op = "makeDir" /\ chain.op = "makeDir"
    /\ Len(Node(last.path)) >= 3
    /\ last.ok

\* replaces each lone surrogate of a text by U+FFFD
RECURSIVE ToWellFormed(_)
ToWellFormed(text) ==
    IF text = <<>> THEN <<>>
    ELSE <<IF Head(text) = "uD800" THEN "uFFFD" ELSE Head(text)>>
            \o ToWellFormed(Tail(text))

\* C5 as claimed: getTextContent right after a successful writeFile of the
\* same path returns exactly the string written.
C5_ExactRoundTrip ==
    (last.op = "getTextContent" /\ chain.op = "writeFile")
        => (last.ok /\ last.text = chain.text)

\* C5 as amended: a successful writeFile creates the file if absent, replaces
\* all of its content if present and touches nothing else, and getTextContent
\* right after it returns the string written with every lone surrogate
\* replaced by U+FFFD: exactly the string written when it is well-formed.
C5_RoundTrip ==
    /\ (last.op = "writeFile" /\ last.ok) =>
          /\ IsFile(fs, Node(last.path))
          /\ fs[Node(last.path)].content = Encode(last.content.text)
          /\ SameExcept(prev, fs, {Node(last.path)})
    /\ (last.op = "getTextContent" /\ chain.op = "writeFile") =>
          /\ last.ok
          /\ last.text = ToWellFormed(chain.text)
          /\ (chain.text = ToWellFormed(chain.text) => last.text = chain.text)
          /\ fs = prev

\* C5 witness: a well-formed text read back right after it was written
C5_Witness ==
    /\ last.op = "getTextContent" /\ chain.op = "writeFile"
    /\ chain.text = <<"x">>
    /\ last.ok /\ last.text = <<"x">>

\* the relative path string of node m below node a
Below(a, m) == Join(SubSeq(m, Len(a) + 1, Len(m)))

\* C6: a copyDir of A to B succeeds only for an A that exists and a B that
\* does not; after it every entry that was under A at any depth is under B
\* at the same place with the same kind, reading B/f returns what reading
\* A/f returned for every file f, and A, everything under it and every other
\* entry there was is as it was.
C6_CopyDirPreservesTree ==
    (last.op = "copyDir" /\ last.ok) =>
        LET A == Node(last.path)
            B == Node(last.target)
        IN  /\ Exists(prev, A) /\ ~Exists(prev, B)
            /\ \A m \in DOMAIN prev : m \in DOMAIN fs /\ fs[m] = prev[m]
            /\ \A m \in { k \in DOMAIN prev : IsPrefix(A, k) } :
              LET image == B \o SubSeq(m, Len(A) + 1, Len(m)) IN
              /\ m \in DOMAIN fs /\ fs[m] = prev[m]
              /\ image \in DOMAIN fs /\ fs[image].type = prev[m].type
              /\ IsFile(prev, m) =>
                    LET copied == getTextContent(fs, ProjectRoot,
                                                 last.target \o Below(A, m))
                        source == getTextContent(prev, ProjectRoot,
                                                 last.path \o Below(A, m))
                    IN  copied.ok /\ source.ok /\ copied.text = source.text

\* C6 witness: a directory with a file two levels down was copied
C6_Witness ==
    /\ last.op = "copyDir" /\ last.ok
    /\ \E m \in DOMAIN prev :
          /\ IsPrefix(Node(last.path), m)
          /\ Len(m) = Len(Node(last.path)) + 2
          /\ IsFile(prev, m)
          /\ IsFile(fs, Node(last.target) \o SubSeq(m, Len(m) - 1, Len(m)))

\* C7 as claimed: whenever the source is a file, a copyFile that completes
\* leaves the target holding the source's content, the source unchanged and
\* every other path unchanged.
C7_AnyTarget ==
    (last.op = "copyFile" /\ IsFile(prev, Node(last.path)) /\ last.ok) =>
        /\ IsFile(fs, Node(last.target))
        /\ fs[Node(last.target)].content = prev[Node(last.path)].content
        /\ IsFile(fs, Node(last.path))
        /\ fs[Node(last.path)] = prev[Node(last.path)]
        /\ SameExcept(prev, fs, {Node(last.target)})

\* C7 as amended: whenever the source S is a file and the target T is another
\* path, copyFile succeeds exactly when T is a file or is missing from an
\* existing directory; then reading T returns the content of S whether or
\* not T existed, S is unchanged and no path other than T is changed; when it
\* fails nothing is changed.  (With T = S the file is truncated or unlinked.)
C7_CopyFileOverwrites ==
    (last.op = "copyFile" /\ IsFile(prev, Node(last.path))
        /\ Node(last.target) # Node(last.path)) =>
        LET S == Node(last.path)
            T == Node(last.target)
        IN  /\ last.ok <=> \/ IsFile(prev, T)
                           \/ Lookup(prev, T) = "NotFound" /\ IsDir(prev, Parent(T))
            /\ last.ok =>
                  /\ IsFile(fs, T) /\ fs[T].content = prev[S].content
                  /\ getTextContent(fs, ProjectRoot, last.target).text
                        = getTextContent(prev, ProjectRoot, last.path).text
                  /\ fs[S] = prev[S]
                  /\ SameExcept(prev, fs, {T})
            /\ ~last.ok => fs = prev

\* C7 witness: the target existed with other content and was overwritten
C7_Witness ==
    /\ last.op = "copyFile" /\ last.ok
    /\ IsFile(prev, Node(last.path)) /\ IsFile(prev, Node(last.target))
    /\ prev[Node(last.target)].content # prev[Node(last.path)].content
    /\ fs[Node(last.target)].content = prev[Node(last.path)].content

ZipFailedPrefix == <<"Failed to create zip: ">>

\* C8 as claimed: whenever the zip process fails, not spawned for want of a
\* zip binary or exited non-zero, zipFolder throws an Error whose message is
\* 'Failed to create zip: ' followed by the process's stderr text.
C8_AnyZipFailure ==
    (last.op = "zipFolder" /\ Len(last.calls) = 2 /\ ~last.ok) =>
        /\ last.kind = "Error"
        /\ last.msg = ZipFailedPrefix \o Decode(last.run.stderr)

\* C8 as amended: when the zip process ran and exited non-zero, zipFolder
\* throws an Error whose message is 'Failed to create zip: ' followed by the
\* decoded stderr; when it could not be spawned (no zip binary, no source
\* directory) the runtime's spawn failure is thrown as it is, with no stderr
\* text; stdout is logged exactly when zipFolder succeeds.
C8_NonZeroExitCarriesStderr ==
    last.op = "zipFolder" =>
        LET reached == Len(last.calls) = 2
            spawned == last.run.spawned /\ IsDir(fs, Node(last.path))
        IN  /\ (reached /\ spawned /\ last.run.code # 0) =>
                  /\ ~last.ok /\ last.kind = "Error"
                  /\ last.msg = ZipFailedPrefix \o Decode(last.run.stderr)
            /\ (reached /\ ~spawned) =>
                  /\ ~last.ok /\ last.kind \in { "NotFound", "NotADirectory" }
                  /\ last.msg = <<"Failed to spawn 'zip'">>
            /\ last.ok <=> (reached /\ spawned /\ last.run.code = 0)
            /\ last.ok => last.logged = <<Decode(last.run.stdout)>>
            /\ ~last.ok => last.logged = <<>>

\* C8 witness: zip exited non-zero having written to stdout and stderr
C8_Witness ==
    /\ last.op = "zipFolder" /\ ~last.ok
    /\ last.run.spawned /\ last.run.code # 0
    /\ last.run.stdout # <<>> /\ last.run.stderr # <<>>
    /\ last.msg = ZipFailedPrefix \o <<"e">>
    /\ last.logged = <<>>

RECURSIVE TrailingSlashes(_)
\* how many separators a string ends with
TrailingSlashes(x) ==
    IF x = <<>> \/ x[Len(x)] # "/" THEN 0
    ELSE 1 + TrailingSlashes(SubSeq(x, 1, Len(x) - 1))

\* where zipFolder's archive belongs
ArchiveNode(target, name) ==
    Node(target) \o <<name \o <<".", "z", "i", "p">>>>

\* C9 as claimed: for every target string the directory zipFolder ensures
\* ends with exactly one '/', it is ensured before the zip process is invoked,
\* and on success the archive is at target/name.zip.
C9_ExactlyOneSeparator ==
    last.op = "zipFolder" =>
        /\ TrailingSlashes(last.ensured) = 1
        /\ last.calls[1] = "ensureDir"
        /\ last.ok => IsFile(fs, ArchiveNode(last.target, last.name))

\* C9 as amended: the directory zipFolder ensures is projectRoot + target with
\* one '/' appended exactly when target does not end with one, so it ends
\* with at least one '/' (the separators target already ends with are kept)
\* and names the same directory as projectRoot + target; ensureDir comes
\* first, the zip process is invoked only if it succeeded and then the
\* directory exists; on success the archive is the file target/name.zip.
C9_SeparatorAppendedIfMissing ==
    last.op = "zipFolder" =>
        /\ last.ensured
              = ProjectRoot \o last.target
                  \o (IF TrailingSlashes(last.target) = 0 THEN <<"/">> ELSE <<>>)
        /\ TrailingSlashes(last.ensured)
              = (IF TrailingSlashes(last.target) = 0
                 THEN 1 ELSE TrailingSlashes(last.target))
        /\ Components(last.ensured) = Node(last.target)
        /\ last.calls[1] = "ensureDir"
        /\ Len(last.calls) = 2 <=> EnsureDir(prev, Node(last.target)).ok
        /\ Len(last.calls) = 2 => IsDir(fs, Node(last.target))
        /\ Len(last.calls) = 1 => (~last.ok /\ fs = prev)
        /\ last.ok =>
              /\ last.archive = Join(ArchiveNode(last.target, last.name))
              /\ IsFile(fs, ArchiveNode(last.target, last.name))

\* C9 witness: a target ending with several separators, archive produced
C9_Witness ==
    /\ last.op = "zipFolder" /\ last.ok
    /\ TrailingSlashes(last.target) >= 2
    /\ ~Exists(prev, Node(last.target))
    /\ IsFile(fs, ArchiveNode(last.target, last.name))

\* the names of the directories directly in the directory at n
DirectoryNames(f, n) ==
    { EntryName(m) : m \in { k \in ChildNodes(f, n) : f[k].type = "dir" } }

\* C10: a getDirectories that succeeds returns, each once and in some order,
\* exactly the names of the immediate children that are directories: no
\* file, no deeper descendant; and it changes nothing.
C10_OnlyDirectories ==
    (last.op = "getDirectories" /\ last.ok) =>
        /\ { last.names[i] : i \in 1..Len(last.names) }
              = DirectoryNames(prev, Node(last.path))
        /\ Len(last.names) = Cardinality(DirectoryNames(prev, Node(last.path)))
        /\ fs = prev

\* C10 witness: the folder listed holds a file and a directory that has an
\* entry of its own
C10_Witness ==
    /\ last.op = "getDirectories" /\ last.ok
    /\ \E m \in ChildNodes(prev, Node(last.path)) : IsFile(prev, m)
    /\ \E m \in ChildNodes(prev, Node(last.path)) :
          IsDir(prev, m) /\ ChildNodes(prev, m) # {}
    /\ Len(last.names) = 1

====
